---- MODULE Spec2Model ----
(***************************************************************************)
(* Model of src/hide.rs of clear_on_drop: the optimizer barriers hide_mem  *)
(* and hide_ptr, the three hide_mem_impl backends (nightly, cc, fallback)  *)
(* and the cfg-driven selection of the backend.                            *)
(*                                                                         *)
(* Memory is a map from numeric addresses to cell values.  Every thread    *)
(* owns one object (the tests' Place) of ObjLen cells; the objects lie     *)
(* next to each other, and each thread has one stack slot that holds the   *)
(* parameter `ptr` of hide_ptr while the call runs.  Address 0 is null.    *)
(***************************************************************************)
EXTENDS Integers, FiniteSets, Sequences, TLC

(* ---- bounds ---- *)
NThreads == 2
ObjLen == 2
MaxByte == 1

Threads == 1..NThreads
ByteVals == 0..MaxByte
NoVal == -1

(* ---- memory layout ---- *)
Base(t) == 1 + (t - 1) * ObjLen
ObjAddrsOf(t) == Base(t)..(Base(t) + ObjLen - 1)
ObjAddrs == 1..(NThreads * ObjLen)
Slot(t) == NThreads * ObjLen + t
Addrs == 1..(NThreads * ObjLen + NThreads)

(* a reference &mut T: address, extent, and whether T: Sized *)
Ref(a, n, s) == [addr |-> a, len |-> n, sized |-> s]
Extent(r) == r.addr..(r.addr + r.len - 1)
NoRef == Ref(0, 0, TRUE)

(* references a thread can hand to hide_mem: its whole object (sized), *)
(* or a slice data[off..] of it (size erased)                          *)
RefsOf(t) ==
  {Ref(Base(t), ObjLen, TRUE)} \cup
  {Ref(Base(t) + off, ObjLen - off, FALSE) : off \in 0..(ObjLen - 1)}

(* pointer values a thread can hand to hide_ptr: null, or into its own *)
(* object                                                              *)
PtrsOf(t) == {0} \cup ObjAddrsOf(t)

(* ---- backend selection (cfg attributes) ---- *)
Backends == {"nightly", "cc", "fallback"}

(* cfg on the `pub use self::<b>::*` line *)
use_cfg(b, n, c) ==
  CASE b = "nightly" -> n
    [] b = "cc" -> ~c
    [] b = "fallback" -> c /\ ~n

(* cfg on the `mod <b>` item *)
mod_cfg(b, n, c) ==
  CASE b = "nightly" -> n
    [] b = "cc" -> ~c
    [] b = "fallback" -> c /\ ~n

(* the hide_mem_impl items the glob imports bring into scope *)
InScope(n, c) == {b \in Backends : use_cfg(b, n, c) /\ mod_cfg(b, n, c)}

(* name resolution of `hide_mem_impl` inside hide_mem: a unique glob  *)
(* import resolves, two are ambiguous, none is unresolved, and a use  *)
(* of a module that is cfg'd out is an error as well                  *)
Resolve(n, c) ==
  IF \E b \in Backends : use_cfg(b, n, c) /\ ~mod_cfg(b, n, c) THEN "error"
  ELSE IF Cardinality(InScope(n, c)) = 1 THEN CHOOSE b \in InScope(n, c) : TRUE
  ELSE "error"

(* ---- the backends, as functions of the world [mem, DUMMY] ---- *)
World(m, d) == [mem |-> m, DUMMY |-> d]

(* variant: the instruction sequence zeroes the first cell of the target *)
nightly_default_zeroing(w, ptr) == [w EXCEPT !.mem[ptr.addr] = 0]

(* asm!("" : : "r"(ptr as *mut u8) : "memory"): empty instruction sequence *)
nightly_default_hide_mem_impl(w, ptr) == w

(* asm!("" : "=*m"(ptr) : "*0"(ptr)): empty instruction sequence *)
nightly_sized_hide_mem_impl(w, ptr) == w

(* dispatch on T: Sized by specialization *)
nightly_hide_mem_impl(w, ptr) ==
  IF ptr.sized THEN nightly_sized_hide_mem_impl(w, ptr)
  ELSE nightly_default_hide_mem_impl(w, ptr)

(* extern "C" clear_on_drop_hide: returns its argument, touches nothing *)
clear_on_drop_hide(w, p) == [w |-> w, ret |-> p]

cc_hide_mem_impl(w, ptr) == clear_on_drop_hide(w, ptr.addr).w

(* variant: the address is also stored one past the end of the target *)
fallback_past_the_end(w, ptr) ==
  LET q == ptr.addr + ptr.len
  IN [mem |-> IF q \in DOMAIN w.mem THEN [w.mem EXCEPT ![q] = ptr.addr] ELSE w.mem,
      DUMMY |-> ptr.addr]

(* variant: the address is stored through the pointer, not into DUMMY *)
fallback_store_through(w, ptr) == [w EXCEPT !.mem[ptr.addr] = ptr.addr]

(* variant: the end of the target is stored, not its address *)
fallback_store_end(w, ptr) == [w EXCEPT !.DUMMY = ptr.addr + ptr.len]

(* variant: compare-and-swap from 0, so only the first call stores *)
fallback_store_once(w, ptr) ==
  [w EXCEPT !.DUMMY = IF w.DUMMY = 0 THEN ptr.addr ELSE w.DUMMY]

(* DUMMY.store(ptr as *mut u8 as usize, Ordering::Release) *)
fallback_hide_mem_impl(w, ptr) == [w EXCEPT !.DUMMY = ptr.addr]

hide_mem_impl(b, w, ptr) ==
  CASE b = "nightly" -> nightly_hide_mem_impl(w, ptr)
    [] b = "cc" -> cc_hide_mem_impl(w, ptr)
    [] b = "fallback" -> fallback_hide_mem_impl(w, ptr)

(* ---- the public functions, run to completion on a world ---- *)
hide_mem_fn(b, w, ptr) == hide_mem_impl(b, w, ptr)

(* the parameter `mut ptr: P` lives in the slot; the barrier gets &mut ptr *)
SlotRef(slot) == Ref(slot, 1, TRUE)

(* the slot is dead once hide_ptr has returned: it is left holding 0 *)
hide_ptr_fn(b, w, slot, p) ==
  LET w1 == [w EXCEPT !.mem[slot] = p]
      w2 == hide_mem_fn(b, w1, SlotRef(slot))
  IN [w |-> [w2 EXCEPT !.mem[slot] = 0], ret |-> w2.mem[slot]]

(* ---- state ---- *)
VARIABLES
  nightly,   \* feature "nightly"
  no_cc,     \* feature "no_cc"
  mem,       \* process memory
  DUMMY,     \* fallback::hide_mem_impl::DUMMY
  pc,        \* per thread: "idle", "hide_mem" (line 14), "hide_ptr" (line 22)
  op,        \* per thread: the public function of the current or last call
  arg,       \* per thread: the value handed to hide_ptr
  ref,       \* per thread: the reference handed to hide_mem
  ret,       \* per thread: what the last hide_ptr returned
  before,    \* per thread: the objects' contents when the call was made
  runs       \* per backend: a world and a return value (lockstep runs)

vars == <<nightly, no_cc, mem, DUMMY, pc, op, arg, ref, ret, before, runs>>

backend == Resolve(nightly, no_cc)
Compiled == backend \in Backends

Snapshot(m) == [a \in ObjAddrs |-> m[a]]

(* the objects start out holding a test pattern (the tests' DATA), the *)
(* slots hold 0                                                        *)
Pattern(seed) ==
  [a \in Addrs |-> IF a \in ObjAddrs THEN (seed + a) % (MaxByte + 1) ELSE 0]
InitMems == {Pattern(seed) : seed \in ByteVals}

NoRet == [t \in Threads |-> NoVal]
Run(m, d, r) == [mem |-> m, DUMMY |-> d, ret |-> r]
NoRuns == [b \in Backends |-> Run(<<>>, 0, NoRet)]

Init ==
  /\ nightly \in BOOLEAN
  /\ no_cc \in BOOLEAN
  /\ mem \in InitMems
  /\ DUMMY = 0
  /\ pc = [t \in Threads |-> "idle"]
  /\ op = [t \in Threads |-> "none"]
  /\ arg = [t \in Threads |-> NoVal]
  /\ ref = [t \in Threads |-> NoRef]
  /\ ret = [t \in Threads |-> NoVal]
  /\ before = [t \in Threads |-> Snapshot(mem)]
  /\ runs = NoRuns

(* a caller enters hide_mem(&mut v) *)
call_hide_mem(t, r) ==
  /\ Compiled
  /\ pc[t] = "idle"
  /\ pc' = [pc EXCEPT ![t] = "hide_mem"]
  /\ op' = [op EXCEPT ![t] = "hide_mem"]
  /\ ref' = [ref EXCEPT ![t] = r]
  /\ arg' = [arg EXCEPT ![t] = NoVal]
  /\ ret' = [ret EXCEPT ![t] = NoVal]
  /\ before' = [before EXCEPT ![t] = Snapshot(mem)]
  /\ UNCHANGED <<nightly, no_cc, mem, DUMMY, runs>>

(* variant: hide_mem(ptr) in place of hide_mem(&mut ptr) *)
call_hide_ptr_pointee(t, p) ==
  /\ Compiled
  /\ pc[t] = "idle"
  /\ pc' = [pc EXCEPT ![t] = "hide_mem"]
  /\ op' = [op EXCEPT ![t] = "hide_ptr"]
  /\ arg' = [arg EXCEPT ![t] = p]
  /\ mem' = [mem EXCEPT ![Slot(t)] = p]
  /\ ref' = [ref EXCEPT ![t] = Ref(p, 1, TRUE)]
  /\ ret' = [ret EXCEPT ![t] = NoVal]
  /\ before' = [before EXCEPT ![t] = Snapshot(mem)]
  /\ UNCHANGED <<nightly, no_cc, DUMMY, runs>>

(* a caller enters hide_ptr(p): p is moved into the parameter slot and *)
(* line 21 calls hide_mem::<P>(&mut ptr)                               *)
call_hide_ptr(t, p) ==
  /\ Compiled
  /\ pc[t] = "idle"
  /\ pc' = [pc EXCEPT ![t] = "hide_mem"]
  /\ op' = [op EXCEPT ![t] = "hide_ptr"]
  /\ arg' = [arg EXCEPT ![t] = p]
  /\ mem' = [mem EXCEPT ![Slot(t)] = p]
  /\ ref' = [ref EXCEPT ![t] = SlotRef(Slot(t))]
  /\ ret' = [ret EXCEPT ![t] = NoVal]
  /\ before' = [before EXCEPT ![t] = Snapshot(mem)]
  /\ UNCHANGED <<nightly, no_cc, DUMMY, runs>>

(* variant: the barrier waits until the scratch cell is free *)
hide_mem_waiting(t) ==
  /\ pc[t] = "hide_mem"
  /\ DUMMY = 0
  /\ LET w == hide_mem_impl(backend, World(mem, DUMMY), ref[t])
     IN /\ mem' = w.mem
        /\ DUMMY' = w.DUMMY
  /\ pc' = [pc EXCEPT ![t] = IF op[t] = "hide_ptr" THEN "hide_ptr" ELSE "idle"]
  /\ UNCHANGED <<nightly, no_cc, op, arg, ref, ret, before, runs>>

(* line 14: hide_mem_impl(ptr), then return to the caller or to hide_ptr *)
hide_mem(t) ==
  /\ pc[t] = "hide_mem"
  /\ LET w == hide_mem_impl(backend, World(mem, DUMMY), ref[t])
     IN /\ mem' = w.mem
        /\ DUMMY' = w.DUMMY
  /\ pc' = [pc EXCEPT ![t] = IF op[t] = "hide_ptr" THEN "hide_ptr" ELSE "idle"]
  /\ UNCHANGED <<nightly, no_cc, op, arg, ref, ret, before, runs>>

(* variant: hide_ptr returns the address of its parameter *)
hide_ptr_address(t) ==
  /\ pc[t] = "hide_ptr"
  /\ ret' = [ret EXCEPT ![t] = Slot(t)]
  /\ mem' = [mem EXCEPT ![Slot(t)] = 0]
  /\ pc' = [pc EXCEPT ![t] = "idle"]
  /\ UNCHANGED <<nightly, no_cc, DUMMY, op, arg, ref, before, runs>>

(* line 22: hide_ptr returns its parameter *)
hide_ptr(t) ==
  /\ pc[t] = "hide_ptr"
  /\ ret' = [ret EXCEPT ![t] = mem[Slot(t)]]
  /\ mem' = [mem EXCEPT ![Slot(t)] = 0]
  /\ pc' = [pc EXCEPT ![t] = "idle"]
  /\ UNCHANGED <<nightly, no_cc, DUMMY, op, arg, ref, before, runs>>

Step(t) == hide_mem(t) \/ hide_ptr(t)

Next ==
  \/ \E t \in Threads : \E r \in RefsOf(t) : call_hide_mem(t, r)
  \/ \E t \in Threads : \E p \in PtrsOf(t) : call_hide_ptr(t, p)
  \/ \E t \in Threads : hide_mem(t)
  \/ \E t \in Threads : hide_ptr(t)

Spec == Init /\ [][Next]_vars

(* ---- the same calls made to a build of each backend, in lockstep ---- *)
InitEq ==
  /\ nightly = FALSE
  /\ no_cc = FALSE
  /\ mem = Pattern(0)
  /\ DUMMY = 0
  /\ pc = [t \in Threads |-> "idle"]
  /\ op = [t \in Threads |-> "none"]
  /\ arg = [t \in Threads |-> NoVal]
  /\ ref = [t \in Threads |-> NoRef]
  /\ ret = NoRet
  /\ before = [t \in Threads |-> Snapshot(mem)]
  /\ \E m \in InitMems : runs = [b \in Backends |-> Run(m, 0, NoRet)]

(* caller t runs hide_mem(r) to completion in every build *)
lockstep_hide_mem(t, r) ==
  /\ runs' = [b \in Backends |->
       LET w == hide_mem_fn(b, World(runs[b].mem, runs[b].DUMMY), r)
       IN Run(w.mem, w.DUMMY, [runs[b].ret EXCEPT ![t] = NoVal])]
  /\ op' = [op EXCEPT ![t] = "hide_mem"]
  /\ ref' = [ref EXCEPT ![t] = r]
  /\ arg' = [arg EXCEPT ![t] = NoVal]
  /\ UNCHANGED <<nightly, no_cc, mem, DUMMY, pc, ret, before>>

(* caller t runs hide_ptr(p) to completion in every build *)
lockstep_hide_ptr(t, p) ==
  /\ runs' = [b \in Backends |->
       LET o == hide_ptr_fn(b, World(runs[b].mem, runs[b].DUMMY), Slot(t), p)
       IN Run(o.w.mem, o.w.DUMMY, [runs[b].ret EXCEPT ![t] = o.ret])]
  /\ op' = [op EXCEPT ![t] = "hide_ptr"]
  /\ ref' = [ref EXCEPT ![t] = SlotRef(Slot(t))]
  /\ arg' = [arg EXCEPT ![t] = p]
  /\ UNCHANGED <<nightly, no_cc, mem, DUMMY, pc, ret, before>>

NextEq ==
  \/ \E t \in Threads : \E r \in RefsOf(t) : lockstep_hide_mem(t, r)
  \/ \E t \in Threads : \E p \in PtrsOf(t) : lockstep_hide_ptr(t, p)

SpecEq == InitEq /\ [][NextEq]_vars

(* ======================= claims ======================= *)
Returned(t, f) == pc[t] = "idle" /\ op[t] = f
InBarrier(t) == pc[t] = "hide_mem"
(* thread t takes the hide_mem step (line 14) *)
BarrierStep(t) == pc[t] = "hide_mem" /\ pc'[t] # "hide_mem"

(* C1: when hide_mem(&mut v) has returned, every cell of v holds what it *)
(* held when the call was made, for sized and for erased-size references *)
(* and whichever backend the build selected.                             *)
C1_ContentInvariance ==
  \A t \in Threads :
    Returned(t, "hide_mem") =>
      \A a \in Extent(ref[t]) : mem[a] = before[t][a]

C1_Witness ==
  \E t \in Threads :
    /\ Returned(t, "hide_mem")
    /\ backend = "nightly"
    /\ ~ref[t].sized
    /\ ref[t].len > 1
    /\ \E a \in Extent(ref[t]) : mem[a] # 0

(* C2: when hide_ptr(p) has returned, the value returned is p and the *)
(* cell p points to holds what it held when the call was made.        *)
C2_IdentityPreservation ==
  \A t \in Threads :
    Returned(t, "hide_ptr") =>
      /\ ret[t] = arg[t]
      /\ arg[t] \in ObjAddrs => mem[arg[t]] = before[t][arg[t]]

C2_Witness ==
  \E t \in Threads :
    /\ Returned(t, "hide_ptr")
    /\ ret[t] \in ObjAddrsOf(t)
    /\ ret[t] # Base(t)

(* C3: in every feature combination exactly one hide_mem_impl is brought *)
(* into scope.                                                           *)
C3_ExactlyOneBackend == Cardinality(InScope(nightly, no_cc)) = 1

(* C4: hide_mem delegates to nightly whenever `nightly` is on, to cc     *)
(* otherwise when `no_cc` is off, and to fallback only when `no_cc` is   *)
(* on and `nightly` is off.                                              *)
C4_BackendPrecedence ==
  backend = IF nightly THEN "nightly" ELSE IF ~no_cc THEN "cc" ELSE "fallback"

(* C5: a barrier step changes no object cell outside its own target, a   *)
(* hide_ptr call changes no object cell at all, and no step adds or      *)
(* removes a memory cell.                                                *)
C5_NoUnrelatedEffect ==
  [][/\ DOMAIN mem' = DOMAIN mem
     /\ \A a \in ObjAddrs :
          mem'[a] # mem[a] =>
            \E t \in Threads :
              BarrierStep(t) /\ op[t] = "hide_mem" /\ a \in Extent(ref[t])]_vars

C5_Witness ==
  \E t \in Threads :
    /\ Returned(t, "hide_mem")
    /\ backend = "fallback"
    /\ DUMMY = ref[t].addr
    /\ ref[t].addr + ref[t].len \in ObjAddrs
    /\ mem[ref[t].addr + ref[t].len] # ref[t].addr

(* C6: after the same calls, the builds of the three backends agree on   *)
(* the contents of memory and on every value hide_ptr returned.          *)
C6_CrossBackendEquivalence ==
  \A b1, b2 \in Backends :
    /\ runs[b1].mem = runs[b2].mem
    /\ runs[b1].ret = runs[b2].ret

C6_Witness ==
  /\ runs["fallback"].DUMMY # runs["cc"].DUMMY
  /\ runs["fallback"].DUMMY \in ObjAddrs
  /\ \E t \in Threads : runs["nightly"].ret[t] \in ObjAddrs

(* what thread t's call yields when nothing else runs: the call applied  *)
(* in one piece to the memory of the moment it was made                  *)
WorldAtCall(t) ==
  World([a \in Addrs |-> IF a \in ObjAddrs THEN before[t][a] ELSE 0], 0)
AloneMem(t) ==
  IF op[t] = "hide_ptr"
  THEN hide_ptr_fn(backend, WorldAtCall(t), Slot(t), arg[t]).w.mem
  ELSE hide_mem_fn(backend, WorldAtCall(t), ref[t]).mem
AloneRet(t) ==
  IF op[t] = "hide_ptr"
  THEN hide_ptr_fn(backend, WorldAtCall(t), Slot(t), arg[t]).ret
  ELSE NoVal

(* C7: under every interleaving a returned call has left its thread's    *)
(* object and its result as the call run alone would; a step changes     *)
(* only the stepping thread's own slot and the scratch cell; and the     *)
(* scratch cell changes only to the address a call in progress passed,   *)
(* starting from 0.                                                      *)
C7_NoCoordinationNeeded ==
  /\ DUMMY = 0
  /\ [](\A t \in Threads :
          (pc[t] = "idle" /\ op[t] # "none") =>
            /\ \A a \in ObjAddrsOf(t) : mem[a] = AloneMem(t)[a]
            /\ ret[t] = AloneRet(t))
  /\ [][/\ \A a \in Addrs :
            mem'[a] # mem[a] =>
              \E t \in Threads : a = Slot(t) /\ pc'[t] # pc[t]
        /\ DUMMY' # DUMMY =>
             \E t \in Threads : BarrierStep(t) /\ DUMMY' = ref[t].addr]_vars

C7_Witness ==
  \E t, u \in Threads :
    /\ t # u
    /\ backend = "fallback"
    /\ pc[t] = "hide_ptr"
    /\ Returned(u, "hide_mem")
    /\ DUMMY = ref[u].addr

(* the steps a call still has to take before it returns *)
StepsLeft(t) ==
  CASE pc[t] = "idle" -> 0
    [] pc[t] = "hide_ptr" -> 1
    [] pc[t] = "hide_mem" -> IF op[t] = "hide_ptr" THEN 2 ELSE 1

(* C8: a call that has been entered can always take its next step (it is *)
(* never blocked and has no failure exit), every step it takes brings it *)
(* exactly one step closer to its return (no retry), and it returns with *)
(* its result complete: hide_ptr with a value, hide_mem with none.       *)
C8_Infallible ==
  /\ [](\A t \in Threads :
          /\ pc[t] # "idle" => ENABLED Step(t)
          /\ Returned(t, "hide_ptr") => ret[t] # NoVal
          /\ Returned(t, "hide_mem") => ret[t] = NoVal)
  /\ [][\A t \in Threads :
          pc'[t] # pc[t] =>
            \/ (pc[t] = "idle" /\ StepsLeft(t)' \in {1, 2})
            \/ StepsLeft(t)' = StepsLeft(t) - 1]_vars

C8_Witness ==
  /\ Compiled
  /\ DUMMY # 0
  /\ \A t \in Threads : pc[t] = "idle" /\ op[t] # "none"

(* C9: hide_ptr hands the barrier the address of its own parameter slot: *)
(* the fallback backend's store on behalf of hide_ptr(p) leaves the slot *)
(* address in the scratch cell, never p.                                 *)
C9_BarrierOnOwnSlot ==
  [][\A t \in Threads :
       (BarrierStep(t) /\ op[t] = "hide_ptr") =>
         /\ ref[t].addr = Slot(t)
         /\ backend = "fallback" => (DUMMY' = Slot(t) /\ DUMMY' # arg[t])]_vars

C9_Witness ==
  \E t \in Threads :
    /\ backend = "fallback"
    /\ pc[t] = "hide_ptr"
    /\ DUMMY = Slot(t)
    /\ arg[t] \in ObjAddrsOf(t)

(* C10: the scratch cell is 0 at start; every barrier step of a fallback *)
(* build leaves its target's address in it; what a barrier does never    *)
(* depends on the cell's value; a build of another backend leaves it 0.  *)
C10_ScratchCell ==
  /\ DUMMY = 0
  /\ [](backend # "fallback" => DUMMY = 0)
  /\ [](\A t \in Threads :
          InBarrier(t) =>
            \A d \in {0} \cup Addrs :
              LET w == hide_mem_impl(backend, World(mem, DUMMY), ref[t])
                  v == hide_mem_impl(backend, World(mem, d), ref[t])
              IN /\ v.mem = w.mem
                 /\ v.DUMMY \in {d, w.DUMMY})
  /\ [][\A t \in Threads :
          (BarrierStep(t) /\ backend = "fallback") => DUMMY' = ref[t].addr]_vars

C10_Witness ==
  \E t, u \in Threads :
    /\ t # u
    /\ backend = "fallback"
    /\ Returned(t, "hide_mem")
    /\ Returned(u, "hide_ptr")
    /\ DUMMY = ref[t].addr

====
